---- MODULE Spec2Model ----
(***************************************************************************)
(* A model of tools/patterns.py of boundless.worlds: the fractional range  *)
(* iterator frange, the random_spots and Truchet generators, and the       *)
(* render loop of main.                                                    *)
(*                                                                         *)
(* Python floats are IEEE-754 binary64.  A float is held here as a sign    *)
(* and a magnitude counted in units of 2^-56, the magnitude split in two   *)
(* limbs (hi * 2^28 + lo) because TLC's integers are 32 bits wide.  Every  *)
(* value the model handles is a multiple of 2^-56 below 4, so an addition  *)
(* is the exact sum rounded to 53 significant bits, ties to even, which is *)
(* what `start += step` computes.                                          *)
(***************************************************************************)
EXTENDS Integers, Sequences, FiniteSets, TLC

VARIABLES
    \* frange (patterns.py:41-49), one generator object
    start,      \* the local `start`, advanced by `start += step`
    end,        \* the argument `end`
    step,       \* the argument `step`
    start0,     \* the argument `start` as passed (history)
    yielded,    \* the values yielded so far, in order (history)
    frPc,       \* "call" | "up" | "down" | "done"
    \* one call of a Truchet generator (patterns.py:170-386)
    tFn,        \* the generator called
    resolution, \* its argument `resolution`
    line_width, \* its argument `line_width` (read by truchet_diagonal_strips only)
    x,          \* the outer frange's running value
    y,          \* the inner frange's running value
    selection,  \* the local `selection`
    shape,      \* the local `shape` of truchet_12_variation
    s,          \* the running value of the strips' frange
    sDir,       \* the branch that frange took: "up" | "down" | "none"
    strips,     \* strips drawn in the current cell (history)
    draws,      \* calls of random_choice so far (history)
    cells,      \* bodies of the inner loop entered so far (history)
    tPc,        \* "outer" | "inner" | "first" | "second" | "strips" | "done"
    \* one call of random_spots (patterns.py:149-168)
    iterations, \* its argument `iterations`
    bubbles,    \* the list `bubbles`
    cand,       \* the sampled (x1, y1, r1)
    idx,        \* the position of the running `for` loop in bubbles
    arcs,       \* the discs drawn and filled so far (history)
    spPc,       \* "while" | "for" | "draw" | "done"
    \* one run of main (patterns.py:548-604)
    seed,       \* args.seed
    path,       \* args.path, "" when --path is not given
    configs,    \* the job records loaded from the configuration file
    n,          \* the index of the job the loop is at
    rng,        \* the state of the module-level random generator
    filenames,  \* the list `filenames`
    written,    \* the names passed to write_to_png that were written (history)
    dispatched, \* the generator calls made: job, RNG state at the call, values drawn (history)
    error,      \* the exception that left main, "" when none did
    result,     \* the 'outputs' of the returned dict
    mPc,        \* "loop" | "write" | "returned" | "raised"
    \* one call of ring_blocks or ring_wedges (patterns.py:388-412, 452-496)
    rFn,             \* the generator called
    inner_radius,    \* its argument `inner_radius`
    rings,           \* its argument `rings`
    block_max_width, \* its argument `block_max_width`
    radius,          \* the running value of frange(inner_radius, 1.0, ring_depth)
    block_per_ring,  \* the local `block_per_ring`
    angle,           \* the running value of frange(0, tau, tau / block_per_ring),
                     \* times block_per_ring
    blocks,          \* blocks added to the path so far (history)
    rError,          \* the exception that left the generator, "" when none did
    rPc,             \* "ring" | "divide" | "blocks" | "done" | "raised"
    \* one call of archimedean_spiral or archimedean_double_spiral
    \* (patterns.py:71-102)
    aEntry,          \* the generator called
    kwargs,          \* the keyword arguments it is called with
    anti_clockwise,  \* the argument `anti_clockwise` of the running spiral
    max_angle,       \* the local `max_angle`
    step_angle,      \* the local `step_angle`
    aAngle,          \* the running value of frange(0, max_angle, step_angle)
    aDir,            \* the branch that frange took: "up" | "down" | "none"
    lines,           \* line_to calls on the current path (history)
    spirals,         \* the spirals stroked so far, with their arguments (history)
    aError,          \* the exception that left the generator, "" when none did
    aPc,             \* "call" | "loop" | "second" | "returned" | "raised"
    \* two iterations of one run of main's loop, as far as the name of the
    \* image goes (patterns.py:555-594)
    jobs,            \* the two iterations: `n` and `fn_name` of each
    outPath,         \* args.path of the run
    outNames,        \* the file name each iteration computes
    nmPc             \* "format" | "named"

frVars == <<start, end, step, start0, yielded, frPc>>
tVars == <<tFn, resolution, line_width, x, y, selection, shape, s, sDir, strips,
           draws, cells, tPc>>
spVars == <<iterations, bubbles, cand, idx, arcs, spPc>>
mVars == <<seed, path, configs, n, rng, filenames, written, dispatched, error, result, mPc>>
rVars == <<rFn, inner_radius, rings, block_max_width, radius, block_per_ring, angle,
           blocks, rError, rPc>>
aVars == <<aEntry, kwargs, anti_clockwise, max_angle, step_angle, aAngle, aDir, lines,
           spirals, aError, aPc>>
nmVars == <<jobs, outPath, outNames, nmPc>>
vars == <<frVars, tVars, spVars, mVars, rVars, aVars, nmVars>>
notFr == <<tVars, spVars, mVars, rVars, aVars, nmVars>>
notTr == <<frVars, spVars, mVars, rVars, aVars, nmVars>>
notSp == <<frVars, tVars, mVars, rVars, aVars, nmVars>>
notMain == <<frVars, tVars, spVars, rVars, aVars, nmVars>>
notRing == <<frVars, tVars, spVars, mVars, aVars, nmVars>>
notSpiral == <<frVars, tVars, spVars, mVars, rVars, nmVars>>
notNames == <<frVars, tVars, spVars, mVars, rVars, aVars>>

(***************************************************************************)
(* Bounds of the model.                                                    *)
(***************************************************************************)
MaxYield == 4
MaxStrips == 6
MaxIterations == 3
MaxJobs == 3

(***************************************************************************)
(* binary64 arithmetic on the values the program handles.                  *)
(***************************************************************************)
Limb == 2^28

Fl(sg, h, l) == [neg |-> sg, hi |-> h, lo |-> l]

FZero == Fl(FALSE, 0, 0)
FOne == Fl(FALSE, Limb, 0)
FMinusOne == Fl(TRUE, Limb, 0)
FTwo == Fl(FALSE, 2 * Limb, 0)
FHalf == Fl(FALSE, Limb \div 2, 0)
FMinusHalf == Fl(TRUE, Limb \div 2, 0)
FQuarter == Fl(FALSE, Limb \div 4, 0)
\* float("0.1") = 7205759403792794 * 2^-56
FTenth == Fl(FALSE, 26843545, 161061274)
FMinusTenth == Fl(TRUE, 26843545, 161061274)
\* 2^-54: half an ulp of 0.5, a quarter of an ulp of 1.0
FTiny == Fl(FALSE, 0, 4)

MagLess(a, b) == a.hi < b.hi \/ (a.hi = b.hi /\ a.lo < b.lo)

MagEq(a, b) == a.hi = b.hi /\ a.lo = b.lo

\* a < b on floats
FLess(a, b) ==
    CASE a.neg /\ ~b.neg -> TRUE
      [] ~a.neg /\ b.neg -> FALSE
      [] ~a.neg /\ ~b.neg -> MagLess(a, b)
      [] OTHER -> MagLess(b, a)

FLeq(a, b) == ~FLess(b, a)

MagAdd(sg, a, b) ==
    LET l == a.lo + b.lo
    IN  Fl(sg, a.hi + b.hi + (l \div Limb), l % Limb)

\* a - b on magnitudes, for a >= b
MagSub(sg, a, b) ==
    LET borrow == IF a.lo < b.lo THEN 1 ELSE 0
    IN  Fl(sg, a.hi - b.hi - borrow, a.lo + borrow * Limb - b.lo)

\* the exact sum, before rounding
ExactAdd(a, b) ==
    IF a.neg = b.neg THEN MagAdd(a.neg, a, b)
    ELSE IF MagEq(a, b) THEN FZero
    ELSE IF MagLess(a, b) THEN MagSub(b.neg, b, a)
    ELSE MagSub(a.neg, a, b)

\* the number of low bits a magnitude has beyond 53 significant bits
ExcessBits(a) ==
    IF a.hi < 2^25 THEN 0
    ELSE IF a.hi < 2^26 THEN 1
    ELSE IF a.hi < 2^27 THEN 2
    ELSE IF a.hi < 2^28 THEN 3
    ELSE IF a.hi < 2^29 THEN 4
    ELSE IF a.hi < 2^30 THEN 5
    ELSE 6

\* round to 53 significant bits, ties to even
FRound(a) ==
    LET q == 2^ExcessBits(a)
        rem == a.lo % q
        base == a.lo - rem
        up == (2 * rem > q) \/ (2 * rem = q /\ (base \div q) % 2 = 1)
        l == IF up THEN base + q ELSE base
    IN  Fl(a.neg, a.hi + (l \div Limb), l % Limb)

\* a + b as Python computes it on floats
Fadd(a, b) == FRound(ExactAdd(a, b))

(***************************************************************************)
(* frange(start, end, step), patterns.py:41-49.  A generator: each yield   *)
(* is one step, and the consumer may stop asking after MaxYield values.    *)
(***************************************************************************)
FrStarts == {FMinusOne, FZero, FHalf, FOne}
FrEnds == {FMinusOne, FZero, FOne}
FrSteps == {FZero, FTenth, FMinusTenth, FHalf, FMinusHalf, FOne, FMinusOne, FTiny}

\* `while start < end` (line 43)
UpContinuesOrEqual(a, b) == FLeq(a, b)
UpContinues(a, b) == FLess(a, b)

\* `while start > end` (line 47)
DownContinues(a, b) == FLess(b, a)

\* no call of a Truchet generator is under way
TrIdle ==
    /\ tFn = "none"
    /\ resolution = FZero
    /\ line_width = FZero
    /\ x = FZero
    /\ y = FZero
    /\ selection = 0
    /\ shape = 0
    /\ s = FZero
    /\ sDir = "none"
    /\ strips = 0
    /\ draws = 0
    /\ cells = 0
    /\ tPc = "idle"

\* no call of frange is under way
FrIdle ==
    /\ start = FZero /\ end = FZero /\ step = FZero /\ start0 = FZero
    /\ yielded = <<>> /\ frPc = "idle"

\* no call of random_spots is under way
SpIdle ==
    /\ iterations = 0
    /\ bubbles = <<>>
    /\ cand = <<0, 0, 0>>
    /\ idx = 0
    /\ arcs = <<>>
    /\ spPc = "idle"

\* main is not running
MainIdle ==
    /\ seed = ""
    /\ path = ""
    /\ configs = <<>>
    /\ n = 0
    /\ rng = 0
    /\ filenames = <<>>
    /\ written = <<>>
    /\ dispatched = <<>>
    /\ error = ""
    /\ result = <<>>
    /\ mPc = "idle"

\* no pair of iterations is being named
NamesIdle ==
    /\ jobs = <<>>
    /\ outPath = ""
    /\ outNames = <<>>
    /\ nmPc = "idle"

\* no call of archimedean_spiral or archimedean_double_spiral is under way
SpiralIdle ==
    /\ aEntry = "none"
    /\ kwargs = <<>>
    /\ anti_clockwise = FALSE
    /\ max_angle = FZero
    /\ step_angle = FZero
    /\ aAngle = FZero
    /\ aDir = "none"
    /\ lines = 0
    /\ spirals = <<>>
    /\ aError = ""
    /\ aPc = "idle"

\* no call of ring_blocks or ring_wedges is under way
RingIdle ==
    /\ rFn = "none"
    /\ inner_radius = 0
    /\ rings = 0
    /\ block_max_width = 0
    /\ radius = 0
    /\ block_per_ring = 0
    /\ angle = 0
    /\ blocks = 0
    /\ rError = ""
    /\ rPc = "idle"

FrInit ==
    /\ TrIdle
    /\ SpIdle
    /\ MainIdle
    /\ RingIdle
    /\ SpiralIdle
    /\ NamesIdle
    /\ start0 \in FrStarts
    /\ start = start0
    /\ end \in FrEnds
    /\ step \in FrSteps
    /\ yielded = <<>>
    /\ frPc = "call"

\* lines 42 and 46: the branch taken on the first next()
FrEnter ==
    /\ frPc = "call"
    /\ frPc' = IF FLess(start, end) THEN "up"
               ELSE IF FLess(end, start) THEN "down"
               ELSE "done"
    /\ UNCHANGED <<start, end, step, start0, yielded, notFr>>

\* lines 43-45
FrYieldUp ==
    /\ frPc = "up"
    /\ UpContinues(start, end)
    /\ Len(yielded) < MaxYield
    /\ yielded' = Append(yielded, start)
    /\ start' = Fadd(start, step)
    /\ UNCHANGED <<end, step, start0, frPc, notFr>>

FrExitUp ==
    /\ frPc = "up"
    /\ ~UpContinues(start, end)
    /\ frPc' = "done"
    /\ UNCHANGED <<start, end, step, start0, yielded, notFr>>

\* lines 47-49
FrYieldDown ==
    /\ frPc = "down"
    /\ DownContinues(start, end)
    /\ Len(yielded) < MaxYield
    /\ yielded' = Append(yielded, start)
    /\ start' = Fadd(start, step)
    /\ UNCHANGED <<end, step, start0, frPc, notFr>>

FrExitDown ==
    /\ frPc = "down"
    /\ ~DownContinues(start, end)
    /\ frPc' = "done"
    /\ UNCHANGED <<start, end, step, start0, yielded, notFr>>

FrNext == FrEnter \/ FrYieldUp \/ FrExitUp \/ FrYieldDown \/ FrExitDown

FrSpec == FrInit /\ [][FrNext]_vars

(***************************************************************************)
(* The Truchet grid generators, patterns.py:170-386.  Each runs            *)
(*     for x in frange(-1, 1, resolution):                                 *)
(*         for y in frange(-1, 1, resolution):                             *)
(*             selection = random_choice(orientations) ...                 *)
(* The drawing calls go to cairo and change nothing the generator reads;   *)
(* the values random_choice returns are any of the list it is given.       *)
(***************************************************************************)
OneDrawNames == {"truchet_triangles", "truchet_quarter_cirlces", "truchet_diagonals",
                 "truchet_variation", "truchet_diagonal_strips"}

TruchetNames == OneDrawNames \cup {"truchet_12_variation"}

\* the list `orientations` of each generator (lines 173, 204, 226, 245, 297, 366)
Orientations(fn) ==
    CASE fn = "truchet_triangles" -> 1..4
      [] fn = "truchet_variation" -> 1..7
      [] OTHER -> 1..2

\* the list `shapes` of truchet_12_variation (line 298)
Shapes == 1..3

Resolutions == {FTenth, FQuarter, FHalf, FOne}

LineWidths == {FTenth, FQuarter}

TrInit ==
    /\ FrIdle
    /\ SpIdle
    /\ MainIdle
    /\ RingIdle
    /\ SpiralIdle
    /\ NamesIdle
    /\ tFn \in TruchetNames
    /\ resolution \in Resolutions
    /\ line_width \in (IF tFn = "truchet_diagonal_strips" THEN LineWidths ELSE {FTenth})
    /\ x = FMinusOne
    /\ y = FMinusOne
    /\ selection = 0
    /\ shape = 0
    /\ s = FZero
    /\ sDir = "none"
    /\ strips = 0
    /\ draws = 0
    /\ cells = 0
    /\ tPc = "outer"

\* `for x in frange(-1, 1, resolution)`: the test of the outer range; when it
\* passes the inner range is created, when it fails the path is filled or
\* stroked and the generator returns
TrOuter ==
    /\ tPc = "outer"
    /\ IF UpContinues(x, FOne)
       THEN y' = FMinusOne /\ tPc' = "inner"
       ELSE y' = y /\ tPc' = "done"
    /\ UNCHANGED <<tFn, resolution, line_width, x, selection, shape, s, sDir, strips,
                   draws, cells, notTr>>

\* the inner range is exhausted: the outer one resumes with `start += step`
TrInnerExit ==
    /\ tPc = "inner"
    /\ ~UpContinues(y, FOne)
    /\ x' = Fadd(x, resolution)
    /\ tPc' = "outer"
    /\ UNCHANGED <<tFn, resolution, line_width, y, selection, shape, s, sDir, strips,
                   draws, cells, notTr>>

\* one cell of truchet_triangles, _quarter_cirlces, _diagonals, _variation:
\* the selection is drawn, its motif is added to the path, the inner range
\* resumes
TrCell ==
    /\ tPc = "inner"
    /\ tFn \in OneDrawNames \ {"truchet_diagonal_strips"}
    /\ UpContinues(y, FOne)
    /\ \E sel \in Orientations(tFn) : selection' = sel
    /\ draws' = draws + 1
    /\ cells' = cells + 1
    /\ y' = Fadd(y, resolution)
    /\ UNCHANGED <<tFn, resolution, line_width, x, shape, s, sDir, strips, tPc, notTr>>

\* one cell of truchet_diagonal_strips (lines 370-378): the selection is drawn
\* and frange(line_width, resolution, 2.0 * line_width) is created
TrCellStrips ==
    /\ tPc = "inner"
    /\ tFn = "truchet_diagonal_strips"
    /\ UpContinues(y, FOne)
    /\ \E sel \in Orientations(tFn) : selection' = sel
    /\ draws' = draws + 1
    /\ cells' = cells + 1
    /\ s' = line_width
    /\ sDir' = IF FLess(line_width, resolution) THEN "up"
               ELSE IF FLess(resolution, line_width) THEN "down"
               ELSE "none"
    /\ strips' = 0
    /\ tPc' = "strips"
    /\ UNCHANGED <<tFn, resolution, line_width, x, y, shape, notTr>>

\* whether the strips' range yields another value
StripContinues ==
    \/ sDir = "up" /\ UpContinues(s, resolution)
    \/ sDir = "down" /\ DownContinues(s, resolution)

\* one strip pair of the cell (lines 373-376 and 379-382)
TrStrip ==
    /\ tPc = "strips"
    /\ StripContinues
    /\ strips < MaxStrips
    /\ strips' = strips + 1
    /\ s' = Fadd(s, Fadd(line_width, line_width))
    /\ UNCHANGED <<tFn, resolution, line_width, x, y, selection, shape, sDir, draws, cells,
                   tPc, notTr>>

\* the strips' range is exhausted: the inner range resumes
TrStripExit ==
    /\ tPc = "strips"
    /\ ~StripContinues
    /\ y' = Fadd(y, resolution)
    /\ tPc' = "inner"
    /\ UNCHANGED <<tFn, resolution, line_width, x, selection, shape, s, sDir, strips,
                   draws, cells, notTr>>

\* truchet_12_variation, line 302: the orientation of the cell's diagonal
TrCell12 ==
    /\ tPc = "inner"
    /\ tFn = "truchet_12_variation"
    /\ UpContinues(y, FOne)
    /\ \E sel \in Orientations(tFn) : selection' = sel
    /\ draws' = draws + 1
    /\ cells' = cells + 1
    /\ tPc' = "first"
    /\ UNCHANGED <<tFn, resolution, line_width, x, y, shape, s, sDir, strips, notTr>>

\* the draws `shape = random_choice(shapes)` made for the first half of a cell
\* whose selection is sel (lines 305 and 332)
FirstHalfDraws(sel) == 1

\* the draws made for the second half (lines 318 and 345)
SecondHalfDrawsOnlyTopLeft(sel) == IF sel = 1 THEN 1 ELSE 0
SecondHalfDraws(sel) == 1

\* lines 305-315 (top left) or 332-342 (top right)
TrShapeFirst ==
    /\ tPc = "first"
    /\ \E sh \in Shapes : shape' = sh
    /\ draws' = draws + FirstHalfDraws(selection)
    /\ tPc' = "second"
    /\ UNCHANGED <<tFn, resolution, line_width, x, y, selection, s, sDir, strips, cells,
                   notTr>>

\* lines 318-328 (bottom right) or 345-355 (bottom left); the inner range
\* resumes
TrShapeSecond ==
    /\ tPc = "second"
    /\ \E sh \in Shapes : shape' = sh
    /\ draws' = draws + SecondHalfDraws(selection)
    /\ y' = Fadd(y, resolution)
    /\ tPc' = "inner"
    /\ UNCHANGED <<tFn, resolution, line_width, x, selection, s, sDir, strips, cells,
                   notTr>>

TrNext ==
    \/ TrOuter \/ TrInnerExit \/ TrCell \/ TrCellStrips \/ TrStrip \/ TrStripExit
    \/ TrCell12 \/ TrShapeFirst \/ TrShapeSecond

TrSpec == TrInit /\ [][TrNext]_vars

(***************************************************************************)
(* random_spots, patterns.py:149-168.  Centres and radii are counted in    *)
(* whole units of a grid, on which msqrt(dx^2 + dy^2) < r1 + r2 is the     *)
(* same as dx^2 + dy^2 < (r1 + r2)^2; random_uniform returns any point of  *)
(* the grid and any radius from min_size to max_size.                      *)
(***************************************************************************)
SpCoords == {0, 2}

SpRadii == {1, 2}

\* what line 153 can sample
Candidates == {<<cx, cy, cr>> : cx \in SpCoords, cy \in SpCoords, cr \in SpRadii}

Sq(k) == k * k

\* line 155, with the radius of the sampled disc left out
IntersectsOwnRadiusIgnored(b, c) == Sq(b[1] - c[1]) + Sq(b[2] - c[2]) < Sq(b[3])
\* line 155: msqrt(mpow((x2 - x1), 2) + mpow((y2 - y1), 2)) < (r1 + r2)
Intersects(b, c) == Sq(b[1] - c[1]) + Sq(b[2] - c[2]) < Sq(c[3] + b[3])

SpInit ==
    /\ FrIdle
    /\ TrIdle
    /\ MainIdle
    /\ RingIdle
    /\ SpiralIdle
    /\ NamesIdle
    /\ iterations \in 0..MaxIterations
    /\ bubbles = <<>>
    /\ cand = <<0, 0, 0>>
    /\ idx = 0
    /\ arcs = <<>>
    /\ spPc = "while"

\* lines 152-153: the loop test passes and a disc is sampled
SpSample ==
    /\ spPc = "while"
    /\ Len(bubbles) < iterations
    /\ cand' \in Candidates
    /\ idx' = 1
    /\ spPc' = "for"
    /\ UNCHANGED <<iterations, bubbles, arcs, notSp>>

\* lines 154-157: the sampled disc against one accepted disc; an intersection
\* breaks out of the for loop, back to the while test
SpCompare ==
    /\ spPc = "for"
    /\ idx <= Len(bubbles)
    /\ IF Intersects(bubbles[idx], cand)
       THEN idx' = idx /\ spPc' = "while"
       ELSE idx' = idx + 1 /\ spPc' = "for"
    /\ UNCHANGED <<iterations, bubbles, cand, arcs, notSp>>

\* lines 158-159: the for loop ran out without a break
SpAppend ==
    /\ spPc = "for"
    /\ idx > Len(bubbles)
    /\ bubbles' = Append(bubbles, cand)
    /\ spPc' = "while"
    /\ UNCHANGED <<iterations, cand, idx, arcs, notSp>>

\* line 152 fails: on to the drawing loop of line 161
SpWhileExit ==
    /\ spPc = "while"
    /\ ~(Len(bubbles) < iterations)
    /\ idx' = 1
    /\ spPc' = "draw"
    /\ UNCHANGED <<iterations, bubbles, cand, arcs, notSp>>

\* lines 161-168: one disc is drawn and filled
SpDraw ==
    /\ spPc = "draw"
    /\ idx <= Len(bubbles)
    /\ arcs' = Append(arcs, bubbles[idx])
    /\ idx' = idx + 1
    /\ UNCHANGED <<iterations, bubbles, cand, spPc, notSp>>

\* the drawing loop ran out: random_spots returns
SpReturn ==
    /\ spPc = "draw"
    /\ idx > Len(bubbles)
    /\ spPc' = "done"
    /\ UNCHANGED <<iterations, bubbles, cand, idx, arcs, notSp>>

SpNext == SpSample \/ SpCompare \/ SpAppend \/ SpWhileExit \/ SpDraw \/ SpReturn

SpSpec == SpInit /\ [][SpNext]_vars

\* the interpreter always takes the next step of a running call
SpFairSpec == SpSpec /\ WF_vars(SpNext)

(***************************************************************************)
(* main, patterns.py:548-604, and what it calls.  The random module is a   *)
(* deterministic generator: random_seed puts it in a state fixed by the    *)
(* seed and every draw advances it, the value drawn being a function of    *)
(* the state.  Before the first random_seed its state is whatever the      *)
(* interpreter seeded it with.                                             *)
(***************************************************************************)
RngStates == 0..3

Seeds == {"Boundless", "Worlds"}

\* random_seed(args.seed): the state a seed puts the generator in
SeedState(sd) == IF sd = "Boundless" THEN 1 ELSE 2

\* one draw: the next state, which is also the value handed out
NextRng(st) == (5 * st + 3) % 4

RECURSIVE Stream(_, _)
\* the values of k successive draws from state st
Stream(st, k) == IF k = 0 THEN <<>> ELSE <<NextRng(st)>> \o Stream(NextRng(st), k - 1)

RECURSIVE Advance(_, _)
\* the state after k draws from state st
Advance(st, k) == IF k = 0 THEN st ELSE Advance(NextRng(st), k - 1)

\* line 569 left out: the generator goes on from where the last job left it
ReseedLeftOut(st, sd) == st
\* line 569: random_seed(args.seed)
Reseed(st, sd) == SeedState(sd)

\* the names @register has put in REGISTERED_FUNCTIONS when main runs
Registered ==
    {"archimedean_spiral", "archimedean_double_spiral", "theodorean_spiral",
     "triple_spiral", "borjgalo", "radials", "random_spots", "truchet_triangles",
     "truchet_quarter_cirlces", "truchet_diagonals", "truchet_variation",
     "truchet_12_variation", "truchet_diagonal_strips", "ring_blocks",
     "archimedean_blocks", "ring_wedges", "triangle", "fern"}

\* the job records a configuration file is made of here: `arg` is the
\* `iterations` of fern and triangle and the `spokes` of radials; one record
\* names no registered function and one has no "_fn" at all
JobRecords ==
    {[fn |-> "fern", arg |-> 2], [fn |-> "triangle", arg |-> 1],
     [fn |-> "radials", arg |-> 8], [fn |-> "radials", arg |-> 0],
     [fn |-> "hexagons", arg |-> 1], [arg |-> 1]}

HasFn(config) == "fn" \in DOMAIN config

\* whether the call of line 571 raises inside the generator: radials divides
\* tau by spokes (line 138)
GeneratorRaises(config) == config.fn = "radials" /\ config.arg = 0

\* the draws a generator makes: fern one random_random per iteration (line
\* 514), triangle two for the first point and one random_choice per iteration
\* (lines 501, 504), radials none
GeneratorDraws(config) ==
    CASE config.fn = "fern" -> config.arg
      [] config.fn = "triangle" -> 2 + config.arg
      [] OTHER -> 0

RECURSIVE Digits(_)
\* the decimal digits of k >= 0
Digits(k) == IF k < 10 THEN <<k>> ELSE Append(Digits(k \div 10), k % 10)

RECURSIVE ZeroPad(_, _)
ZeroPad(ds, width) == IF Len(ds) < width THEN ZeroPad(<<0>> \o ds, width) ELSE ds

\* '{:03}'.format(n) cut to its last three digits
Format03LastThree(k) == ZeroPad(Digits(k % 1000), 3)

\* '{}'.format(n): no padding
FormatUnpadded(k) == Digits(k)
\* '{:03}'.format(n)
Format03(k) == ZeroPad(Digits(k), 3)

\* lines 591-594: the name of job k's image, a sequence of text pieces
FileName(k, fn_name, dir) ==
    LET filename == Format03(k) \o <<".", fn_name, ".png">>
    IN  IF dir # "" THEN <<dir, "/">> \o filename ELSE filename

RECURSIVE SeqsUpTo(_, _)
\* the sequences over S of length at most k
SeqsUpTo(S, k) ==
    IF k = 0 THEN {<<>>}
    ELSE LET shorter == SeqsUpTo(S, k - 1)
         IN  shorter \cup {Append(q, e) : q \in shorter, e \in S}

MainInit ==
    /\ FrIdle
    /\ TrIdle
    /\ SpIdle
    /\ RingIdle
    /\ SpiralIdle
    /\ NamesIdle
    /\ seed \in Seeds
    /\ path \in {"", "out"}
    /\ configs \in SeqsUpTo(JobRecords, MaxJobs)
    /\ n = 0
    /\ rng \in RngStates
    /\ filenames = <<>>
    /\ written = <<>>
    /\ dispatched = <<>>
    /\ error = ""
    /\ result = <<>>
    /\ mPc = "loop"

\* the record the loop is at
Config == configs[n + 1]

\* lines 555-571, the job has no "_fn": config.pop raises KeyError after the
\* surface was prepared and the generator reseeded
MNoFn ==
    /\ mPc = "loop"
    /\ n < Len(configs)
    /\ ~HasFn(Config)
    /\ rng' = Reseed(rng, seed)
    /\ error' = "KeyError"
    /\ mPc' = "raised"
    /\ UNCHANGED <<seed, path, configs, n, filenames, written, dispatched, result, notMain>>

\* lines 555-571, the name is not registered: the lookup raises KeyError
MUnregistered ==
    /\ mPc = "loop"
    /\ n < Len(configs)
    /\ HasFn(Config)
    /\ Config.fn \notin Registered
    /\ rng' = Reseed(rng, seed)
    /\ error' = "KeyError"
    /\ mPc' = "raised"
    /\ UNCHANGED <<seed, path, configs, n, filenames, written, dispatched, result, notMain>>

\* lines 555-571, the generator is called and raises
MGeneratorRaises ==
    /\ mPc = "loop"
    /\ n < Len(configs)
    /\ HasFn(Config)
    /\ Config.fn \in Registered
    /\ GeneratorRaises(Config)
    /\ rng' = Reseed(rng, seed)
    /\ dispatched' = Append(dispatched,
                            [job |-> n, config |-> Config, rng0 |-> rng', drawn |-> <<>>])
    /\ error' = "ZeroDivisionError"
    /\ mPc' = "raised"
    /\ UNCHANGED <<seed, path, configs, n, filenames, written, result, notMain>>

\* lines 555-571, the generator is called and returns
MDispatch ==
    /\ mPc = "loop"
    /\ n < Len(configs)
    /\ HasFn(Config)
    /\ Config.fn \in Registered
    /\ ~GeneratorRaises(Config)
    /\ LET seeded == Reseed(rng, seed)
       IN  /\ dispatched' = Append(dispatched,
                                   [job |-> n, config |-> Config, rng0 |-> seeded,
                                    drawn |-> Stream(seeded, GeneratorDraws(Config))])
           /\ rng' = Advance(seeded, GeneratorDraws(Config))
    /\ mPc' = "write"
    /\ UNCHANGED <<seed, path, configs, n, filenames, written, error, result, notMain>>

\* lines 591-598: the image is written and its name appended
MWrite ==
    /\ mPc = "write"
    /\ LET filename == FileName(n, Config.fn, path)
       IN  /\ written' = Append(written, filename)
           /\ filenames' = Append(filenames, filename)
    /\ n' = n + 1
    /\ mPc' = "loop"
    /\ UNCHANGED <<seed, path, configs, rng, dispatched, error, result, notMain>>

\* lines 593 and 597: os_makedirs or write_to_png raises
MWriteRaises ==
    /\ mPc = "write"
    /\ error' = "OSError"
    /\ mPc' = "raised"
    /\ UNCHANGED <<seed, path, configs, n, rng, filenames, written, dispatched, result,
                   notMain>>

\* lines 601-604 after at least one job: width and height are bound
MReturn ==
    /\ mPc = "loop"
    /\ n = Len(configs)
    /\ n > 0
    /\ result' = filenames
    /\ mPc' = "returned"
    /\ UNCHANGED <<seed, path, configs, n, rng, filenames, written, dispatched, error,
                   notMain>>

\* lines 601-604 after no job: width and height were never assigned
MReturnUnbound ==
    /\ mPc = "loop"
    /\ n = Len(configs)
    /\ n = 0
    /\ error' = "UnboundLocalError"
    /\ mPc' = "raised"
    /\ UNCHANGED <<seed, path, configs, n, rng, filenames, written, dispatched, result,
                   notMain>>

Next ==
    \/ MNoFn \/ MUnregistered \/ MGeneratorRaises \/ MDispatch
    \/ MWrite \/ MWriteRaises \/ MReturn \/ MReturnUnbound

Spec == MainInit /\ [][Next]_vars

(***************************************************************************)
(* ring_blocks and ring_wedges, patterns.py:388-412 and 452-496.  Lengths  *)
(* and angles are counted in thousandths and a quotient is taken on them   *)
(* exactly (the angle of a block is held multiplied by block_per_ring, so  *)
(* that the step tau / block_per_ring is a whole number); the arguments    *)
(* are chosen away from the points where a float quotient would round      *)
(* across an integer.  The two generators run the same loops and differ in *)
(* the lines they add per block.                                           *)
(***************************************************************************)
Thousand == 1000

\* tau, in thousandths
TauMilli == 6283

RingNames == {"ring_blocks", "ring_wedges"}

InnerRadii == {0, 400, 800}

RingCounts == {1, 2}

BlockMaxWidths == {500, 3000, 7000}

\* lines 390 and 455: ring_depth = (1.0 - inner_radius) / rings
RingDepth == (Thousand - inner_radius) \div rings

\* lines 394-395 and 459-460: mfloor(tau * radius / block_max_width)
BlockPerRing(r, w) == (TauMilli * r) \div (Thousand * w)

RingInit ==
    /\ FrIdle
    /\ TrIdle
    /\ SpIdle
    /\ MainIdle
    /\ SpiralIdle
    /\ NamesIdle
    /\ rFn \in RingNames
    /\ inner_radius \in InnerRadii
    /\ rings \in RingCounts
    /\ block_max_width \in BlockMaxWidths
    /\ radius = inner_radius
    /\ block_per_ring = 0
    /\ angle = 0
    /\ blocks = 0
    /\ rError = ""
    /\ rPc = "ring"

\* lines 393-395 and 458-460: the test of the rings' range and, when it
\* passes, the block count of the ring
RbRing ==
    /\ rPc = "ring"
    /\ IF radius < Thousand
       THEN /\ block_per_ring' = BlockPerRing(radius, block_max_width)
            /\ rPc' = "divide"
       ELSE /\ block_per_ring' = block_per_ring
            /\ rPc' = "done"
    /\ UNCHANGED <<rFn, inner_radius, rings, block_max_width, radius, angle, blocks,
                   rError, notRing>>

\* lines 396 and 461: angle_per_block = (tau / block_per_ring) * 0.8, and the
\* range of line 398 (464, 477) is created with the step tau / block_per_ring
RbAngleStep ==
    /\ rPc = "divide"
    /\ block_per_ring # 0
    /\ angle' = 0
    /\ rPc' = "blocks"
    /\ UNCHANGED <<rFn, inner_radius, rings, block_max_width, radius, block_per_ring,
                   blocks, rError, notRing>>

\* lines 396 and 461 with block_per_ring == 0: the float division raises
RbDivideByZero ==
    /\ rPc = "divide"
    /\ block_per_ring = 0
    /\ rError' = "ZeroDivisionError"
    /\ rPc' = "raised"
    /\ UNCHANGED <<rFn, inner_radius, rings, block_max_width, radius, block_per_ring,
                   angle, blocks, notRing>>

\* lines 398-403 (464-475, 477-487): one block of the ring
RbBlock ==
    /\ rPc = "blocks"
    /\ angle < TauMilli * block_per_ring
    /\ blocks' = blocks + 1
    /\ angle' = angle + TauMilli
    /\ UNCHANGED <<rFn, inner_radius, rings, block_max_width, radius, block_per_ring,
                   rError, rPc, notRing>>

\* the blocks' range is exhausted: the rings' range resumes
RbBlocksDone ==
    /\ rPc = "blocks"
    /\ ~(angle < TauMilli * block_per_ring)
    /\ radius' = radius + RingDepth
    /\ rPc' = "ring"
    /\ UNCHANGED <<rFn, inner_radius, rings, block_max_width, block_per_ring, angle,
                   blocks, rError, notRing>>

RingNext == RbRing \/ RbAngleStep \/ RbDivideByZero \/ RbBlock \/ RbBlocksDone

RingSpec == RingInit /\ [][RingNext]_vars

(***************************************************************************)
(* archimedean_spiral and archimedean_double_spiral, patterns.py:71-102.   *)
(* loops is -1, 0 or 1 and iterations a power of two, so that max_angle    *)
(* and step_angle are exact floats; the amplitude `a` is read only for the *)
(* division that computes it.                                              *)
(***************************************************************************)
\* math.tau = 452751216129820160 * 2^-56
FTau == Fl(FALSE, 1686629713, 17516032)

\* line 73: loops * tau, for loops in -1..1
MaxAngle(l) == IF l = 0 THEN FZero ELSE Fl(l < 0, FTau.hi, FTau.lo)

\* line 74: max_angle / iterations, for iterations 1, 2 or 4
StepAngle(a, k) ==
    Fl(a.neg /\ (a.hi # 0 \/ a.lo # 0), a.hi \div k, ((a.hi % k) * Limb + a.lo) \div k)

SpiralNames == {"archimedean_spiral", "archimedean_double_spiral"}

\* the keyword arguments without anti_clockwise
PlainKwargs ==
    [loops : {-1, 0, 1}, iterations : {1, 2, 4}, radial : BOOLEAN,
     line_width : {FTenth, FQuarter}]

\* the keyword arguments a job record can carry
KwargSets ==
    PlainKwargs \cup {kw @@ ("anti_clockwise" :> v) : kw \in PlainKwargs, v \in BOOLEAN}

HasAntiClockwise(kw) == "anti_clockwise" \in DOMAIN kw

SpiralInit ==
    /\ FrIdle
    /\ TrIdle
    /\ SpIdle
    /\ MainIdle
    /\ RingIdle
    /\ NamesIdle
    /\ aEntry \in SpiralNames
    /\ kwargs \in KwargSets
    \* line 72 called from main, or line 101: anti_clockwise is the keyword
    \* argument when given and False otherwise
    /\ anti_clockwise = IF HasAntiClockwise(kwargs) THEN kwargs.anti_clockwise ELSE FALSE
    /\ max_angle = FZero
    /\ step_angle = FZero
    /\ aAngle = FZero
    /\ aDir = "none"
    /\ lines = 0
    /\ spirals = <<>>
    /\ aError = ""
    /\ aPc = "call"

\* lines 73-82 with max_angle != 0: the angles, the amplitude, move_to(0, 0)
\* and the range of line 82
AsCall ==
    /\ aPc = "call"
    /\ MaxAngle(kwargs.loops) # FZero
    /\ max_angle' = MaxAngle(kwargs.loops)
    /\ step_angle' = StepAngle(max_angle', kwargs.iterations)
    /\ aAngle' = FZero
    /\ aDir' = IF FLess(FZero, max_angle') THEN "up"
               ELSE IF FLess(max_angle', FZero) THEN "down"
               ELSE "none"
    /\ lines' = 0
    /\ aPc' = "loop"
    /\ UNCHANGED <<aEntry, kwargs, anti_clockwise, spirals, aError, notSpiral>>

\* lines 73-77 with max_angle == 0: the division of line 77 raises
AsDivideByZero ==
    /\ aPc = "call"
    /\ MaxAngle(kwargs.loops) = FZero
    /\ max_angle' = FZero
    /\ step_angle' = FZero
    /\ aError' = "ZeroDivisionError"
    /\ aPc' = "raised"
    /\ UNCHANGED <<aEntry, kwargs, anti_clockwise, aAngle, aDir, lines, spirals, notSpiral>>

\* whether the range of line 82 yields another angle
AngleContinues ==
    \/ aDir = "up" /\ UpContinues(aAngle, max_angle)
    \/ aDir = "down" /\ DownContinues(aAngle, max_angle)

\* lines 82-86: one point of the spiral
AsLineTo ==
    /\ aPc = "loop"
    /\ AngleContinues
    /\ lines' = lines + 1
    /\ aAngle' = Fadd(aAngle, step_angle)
    /\ UNCHANGED <<aEntry, kwargs, anti_clockwise, max_angle, step_angle, aDir, spirals,
                   aError, aPc, notSpiral>>

\* lines 88-97: the path is stroked and the spiral returns, to its caller
\* when that is line 101 of archimedean_double_spiral
AsStroke ==
    /\ aPc = "loop"
    /\ ~AngleContinues
    /\ spirals' = Append(spirals,
                         [anti_clockwise |-> anti_clockwise, loops |-> kwargs.loops,
                          iterations |-> kwargs.iterations, radial |-> kwargs.radial,
                          line_width |-> kwargs.line_width, line_tos |-> lines])
    /\ aPc' = IF aEntry = "archimedean_double_spiral" /\ Len(spirals) = 0
              THEN "second" ELSE "returned"
    /\ UNCHANGED <<aEntry, kwargs, anti_clockwise, max_angle, step_angle, aAngle, aDir,
                   lines, aError, notSpiral>>

\* line 102: archimedean_spiral(draw, anti_clockwise=True, **kwargs)
DsSecondCall ==
    /\ aPc = "second"
    /\ ~HasAntiClockwise(kwargs)
    /\ anti_clockwise' = TRUE
    /\ aPc' = "call"
    /\ UNCHANGED <<aEntry, kwargs, max_angle, step_angle, aAngle, aDir, lines, spirals,
                   aError, notSpiral>>

\* line 102 when kwargs holds anti_clockwise too: the call gets the keyword
\* twice and raises
DsSecondCallRaises ==
    /\ aPc = "second"
    /\ HasAntiClockwise(kwargs)
    /\ aError' = "TypeError"
    /\ aPc' = "raised"
    /\ UNCHANGED <<aEntry, kwargs, anti_clockwise, max_angle, step_angle, aAngle, aDir,
                   lines, spirals, notSpiral>>

SpiralNext ==
    \/ AsCall \/ AsDivideByZero \/ AsLineTo \/ AsStroke
    \/ DsSecondCall \/ DsSecondCallRaises

SpiralSpec == SpiralInit /\ [][SpiralNext]_vars

(***************************************************************************)
(* The file names of two iterations of one run of main, patterns.py:555    *)
(* and 591-594: enumerate hands the later iteration a larger `n`, the two  *)
(* may run the same generator, and both join the same args.path.           *)
(***************************************************************************)
\* the values of `n` followed: below, at and above the width of the padding
JobIndices == {0, 7, 12, 100, 999, 1000, 1007, 1012, 2000, 10000}

NamedGenerators == {"fern", "radials"}

NamesInit ==
    /\ FrIdle
    /\ TrIdle
    /\ SpIdle
    /\ MainIdle
    /\ RingIdle
    /\ SpiralIdle
    /\ jobs \in {<<[n |-> i, fn_name |-> f], [n |-> j, fn_name |-> g]>> :
                   i \in JobIndices, j \in JobIndices,
                   f \in NamedGenerators, g \in NamedGenerators}
    /\ jobs[1].n < jobs[2].n
    /\ outPath \in {"", "out"}
    /\ outNames = <<>>
    /\ nmPc = "format"

\* lines 591-594 in each of the two iterations
NmFormat ==
    /\ nmPc = "format"
    /\ outNames' = <<FileName(jobs[1].n, jobs[1].fn_name, outPath),
                     FileName(jobs[2].n, jobs[2].fn_name, outPath)>>
    /\ nmPc' = "named"
    /\ UNCHANGED <<jobs, outPath, notNames>>

NamesNext == NmFormat

NamesSpec == NamesInit /\ [][NamesNext]_vars

(***************************************************************************)
(* Claims about main.                                                      *)
(***************************************************************************)
\* C1: the generator of every job starts from the RNG state the seed fixes,
\* whatever ran before it, so a job record gets the same draws at every
\* position of the list: any two calls made for equal records drew the same
\* values, and each drew the stream that starts at the seed's state.
C1_JobsStartFromTheSeed ==
    /\ \A i \in 1..Len(dispatched) :
          /\ dispatched[i].rng0 = SeedState(seed)
          /\ dispatched[i].drawn
               = Stream(SeedState(seed), GeneratorDraws(dispatched[i].config))
    /\ \A i, j \in 1..Len(dispatched) :
          dispatched[i].config = dispatched[j].config
              => dispatched[i].drawn = dispatched[j].drawn

\* the same fern job ran first and third, with a triangle job that left the
\* generator in another state between them
C1_Witness ==
    /\ Len(dispatched) = 3
    /\ dispatched[1].config = dispatched[3].config
    /\ dispatched[1].config.fn = "fern"
    /\ dispatched[2].config.fn = "triangle"
    /\ Advance(SeedState(seed), GeneratorDraws(dispatched[2].config)) # SeedState(seed)

\* the name expected for the image of job k of the list: three digits that
\* spell k, a dot, the generator's name and ".png", behind the directory
\* when --path is given
IsNameOfJob(name, k) ==
    LET base == IF path = "" THEN name ELSE SubSeq(name, 3, Len(name))
    IN  /\ path # "" => Len(name) > 2 /\ name[1] = path /\ name[2] = "/"
        /\ Len(base) = 6
        /\ \A d \in 1..3 : base[d] \in 0..9
        /\ 100 * base[1] + 10 * base[2] + base[3] = k
        /\ base[4] = "."
        /\ base[5] = configs[k + 1].fn
        /\ base[6] = ".png"

\* C2: when main returns, 'outputs' has one entry per job, in job order, each
\* the name '<index on three digits>.<generator name>.png' (behind the
\* output directory when --path is given); throughout the loop the entries
\* are as many as the jobs completed, each of which wrote one image.
C2_OneNamedOutputPerJob ==
    /\ mPc = "returned" =>
          /\ Len(result) = Len(configs)
          /\ \A i \in 1..Len(result) : IsNameOfJob(result[i], i - 1)
    /\ Len(filenames) = n
    /\ Len(written) = n
    /\ mPc \in {"loop", "returned"} => Len(dispatched) = n
    /\ mPc = "write" => Len(dispatched) = n + 1

\* main returned the names of three jobs, written under --path
C2_Witness ==
    /\ mPc = "returned"
    /\ Len(result) = 3
    /\ path = "out"
    /\ written = result

\* a record of the list has no "_fn" or names no registered function
BadRecord(config) == ~HasFn(config) \/ config.fn \notin Registered

\* C3: when some record of the job list is malformed or names an unknown
\* pattern, no job of the batch has its generator called or its image
\* written, the jobs before the bad record included.
C3_BadBatchRendersNothing ==
    (\E i \in 1..Len(configs) : BadRecord(configs[i]))
        => dispatched = <<>> /\ written = <<>>

\* C4: the failure of one job's generator or image write does not stop the
\* loop: the driver is still running the remaining jobs or has returned the
\* manifest.
C4_JobFailureIsIsolated ==
    error \in {"ZeroDivisionError", "OSError"} => mPc \in {"loop", "write", "returned"}


(***************************************************************************)
(* Claims about frange.                                                    *)
(***************************************************************************)
FNonZero(a) == a.hi # 0 \/ a.lo # 0

FPositive(a) == ~a.neg /\ FNonZero(a)

FNegative(a) == a.neg /\ FNonZero(a)

\* sign(step) is opposite to sign(end - start)
StepOpposed ==
    \/ FLess(start0, end) /\ FNegative(step)
    \/ FLess(end, start0) /\ FPositive(step)

\* start != end, step != 0 and sign(step) = sign(end - start)
StepToward ==
    \/ FLess(start0, end) /\ FPositive(step)
    \/ FLess(end, start0) /\ FNegative(step)

FMin(a, b) == IF FLess(a, b) THEN a ELSE b

FMax(a, b) == IF FLess(a, b) THEN b ELSE a

\* C5: frange yields nothing when start == end, and nothing either when
\* step == 0 or sign(step) opposes sign(end - start) (it stops there instead
\* of going on yielding).
C5_DegenerateYieldsNothing ==
    (start0 = end \/ ~FNonZero(step) \/ StepOpposed) => yielded = <<>>

\* C6 as stated: for start != end, step != 0 and sign(step) = sign(end - start)
\* the yielded values are strictly monotonic in the direction of end and each
\* one lies in (min(start, end), max(start, end)].
C6_AsStated ==
    StepToward =>
        /\ \A i \in 1..(Len(yielded) - 1) :
              IF FLess(start0, end) THEN FLess(yielded[i], yielded[i + 1])
              ELSE FLess(yielded[i + 1], yielded[i])
        /\ \A i \in 1..Len(yielded) :
              /\ FLess(FMin(start0, end), yielded[i])
              /\ FLeq(yielded[i], FMax(start0, end))

\* C6 amended: under the same precondition the first yielded value is start,
\* every yielded value lies between start (included) and end (excluded), and
\* the sequence never moves away from end: it is strictly monotonic at every
\* position where the float addition start + step changes the value.
C6_StartInclusiveEndExclusive ==
    StepToward =>
        /\ Len(yielded) > 0 => yielded[1] = start0
        /\ \A i \in 1..(Len(yielded) - 1) :
              IF FLess(start0, end)
              THEN /\ FLeq(yielded[i], yielded[i + 1])
                   /\ Fadd(yielded[i], step) # yielded[i]
                        => FLess(yielded[i], yielded[i + 1])
              ELSE /\ FLeq(yielded[i + 1], yielded[i])
                   /\ Fadd(yielded[i], step) # yielded[i]
                        => FLess(yielded[i + 1], yielded[i])
        /\ \A i \in 1..Len(yielded) :
              IF FLess(start0, end)
              THEN FLeq(start0, yielded[i]) /\ FLess(yielded[i], end)
              ELSE FLess(end, yielded[i]) /\ FLeq(yielded[i], start0)
        /\ frPc = "done" => Len(yielded) > 0

\* an increasing range ran to its end and yielded several values
C6_Witness ==
    /\ frPc = "done"
    /\ FLess(start0, end)
    /\ FPositive(step)
    /\ Len(yielded) >= 3

(***************************************************************************)
(* Claims about the Truchet generators.                                    *)
(***************************************************************************)
RECURSIVE CeilSteps(_, _, _)
\* the least k with k * r >= 2, the products taken exactly
CeilSteps(acc, r, k) ==
    IF FLeq(FTwo, acc) THEN k ELSE CeilSteps(ExactAdd(acc, r), r, k + 1)

\* ceil(2 / r) for a float r > 0
Ceil2Over(r) == CeilSteps(FZero, r, 0)

RECURSIVE FrangeLen(_, _, _)
\* len(list(frange(a, b, st))) for a < b and st > 0
FrangeLen(a, b, st) ==
    IF UpContinues(a, b) THEN 1 + FrangeLen(Fadd(a, st), b, st) ELSE 0

\* the generator is between two cells, or has returned
AtCellBoundary == tPc \in {"outer", "inner", "done"}

\* C9: each Truchet generator other than the 12-variation consumes one draw
\* per grid cell, and ceil(2/resolution)^2 draws in one invocation.
C9_OneDrawPerCellOfCeilGrid ==
    tFn \in OneDrawNames =>
        /\ AtCellBoundary => draws = cells
        /\ tPc = "done" => draws = Ceil2Over(resolution) * Ceil2Over(resolution)

\* C10 as stated: truchet_12_variation consumes two draws per grid cell, and
\* 2 * ceil(2/resolution)^2 draws in one invocation.
C10_AsStated ==
    tFn = "truchet_12_variation" =>
        /\ AtCellBoundary => draws = 2 * cells
        /\ tPc = "done" => draws = 2 * Ceil2Over(resolution) * Ceil2Over(resolution)

\* C10 amended: truchet_12_variation consumes three draws per grid cell
\* visited, on every path through the cell (one for the orientation of the
\* diagonal, then one shape for each of its halves), so 3 * k^2 draws in one
\* invocation, k being the number of values frange(-1, 1, resolution) yields.
C10_ThreeDrawsPerCell ==
    tFn = "truchet_12_variation" =>
        /\ AtCellBoundary => draws = 3 * cells
        /\ tPc = "first" => draws = 3 * cells - 2
        /\ tPc = "second" => draws = 3 * cells - 1
        /\ tPc = "done" =>
              cells = FrangeLen(FMinusOne, FOne, resolution)
                        * FrangeLen(FMinusOne, FOne, resolution)

\* truchet_12_variation returned from a grid of 4 x 4 cells in which the last
\* cell took the second orientation
C10_Witness ==
    /\ tFn = "truchet_12_variation"
    /\ tPc = "done"
    /\ resolution = FHalf
    /\ selection = 2
    /\ cells = 16

(***************************************************************************)
(* Claims about random_spots.                                              *)
(***************************************************************************)
\* C7: when random_spots returns it has accepted and drawn `iterations`
\* discs, the centres of any two accepted discs are at least the sum of their
\* radii apart, and a sampled disc is appended only once it has been compared
\* against every disc accepted before it.
C7_PackingIsDisjoint ==
    /\ spPc = "done" =>
          /\ Len(bubbles) = iterations
          /\ arcs = bubbles
    /\ \A i, j \in 1..Len(bubbles) :
          i # j =>
            Sq(bubbles[i][1] - bubbles[j][1]) + Sq(bubbles[i][2] - bubbles[j][2])
                >= Sq(bubbles[i][3] + bubbles[j][3])
    /\ spPc = "for" =>
          \A j \in 1..(idx - 1) :
            Sq(bubbles[j][1] - cand[1]) + Sq(bubbles[j][2] - cand[2])
                >= Sq(bubbles[j][3] + cand[3])

\* random_spots returned after packing three discs
C7_Witness ==
    /\ spPc = "done"
    /\ iterations = 3
    /\ Len(arcs) = 3

\* C8: the sampling loop of random_spots terminates on every sequence of
\* random draws: it returns, or gives up with PackingFailed once its attempt
\* budget is spent.
C8_SamplingTerminates == <>(spPc \in {"done", "failed"})

(***************************************************************************)
(* Claims about ring_blocks and ring_wedges.                               *)
(***************************************************************************)
\* C11: in ring_blocks and ring_wedges the block count of a ring is at least
\* 1 when the angular step divides by it, whatever the ring's radius and
\* block_max_width: no division by zero occurs.
C11_BlockCountIsPositive ==
    /\ rPc = "divide" => block_per_ring >= 1
    /\ rError # "ZeroDivisionError"

(***************************************************************************)
(* Claims about the spirals.                                               *)
(***************************************************************************)
\* C12: archimedean_spiral called with loops <= 0 issues no line_to for a
\* spiral point and raises no error.
C12_NonPositiveLoopsEmptyPath ==
    (aEntry = "archimedean_spiral" /\ kwargs.loops <= 0)
        => /\ lines = 0
           /\ \A i \in 1..Len(spirals) : spirals[i].line_tos = 0
           /\ aError = ""

\* the arguments a spiral was drawn with, its direction aside
SharedArguments(sp) ==
    [loops |-> sp.loops, iterations |-> sp.iterations, radial |-> sp.radial,
     line_width |-> sp.line_width]

\* C13: for every parameter set archimedean_spiral accepts, the anti_clockwise
\* key included, archimedean_double_spiral ends having drawn two spirals, the
\* clockwise one and then the anti-clockwise one, with the loops, line_width,
\* radial and iterations it was given.
C13_ClockwiseThenAntiClockwise ==
    (/\ aEntry = "archimedean_double_spiral"
     /\ kwargs.loops # 0
     /\ aPc \in {"returned", "raised"})
        => /\ aError = ""
           /\ Len(spirals) = 2
           /\ ~spirals[1].anti_clockwise
           /\ spirals[2].anti_clockwise
           /\ \A i \in 1..2 :
                SharedArguments(spirals[i])
                  = [loops |-> kwargs.loops, iterations |-> kwargs.iterations,
                     radial |-> kwargs.radial, line_width |-> kwargs.line_width]

(***************************************************************************)
(* Claims about the file names.                                            *)
(***************************************************************************)
\* C14: two jobs of one batch never get the same output file name, also when
\* both run the same generator and when the batch has 1000 jobs or more.
C14_NamesAreDistinct ==
    nmPc = "named" => outNames[1] # outNames[2]

\* job 0 and job 1000 of a batch that runs one generator throughout are named
C14_Witness ==
    /\ nmPc = "named"
    /\ jobs[1].n = 0
    /\ jobs[2].n = 1000
    /\ jobs[1].fn_name = jobs[2].fn_name
    /\ outNames[1] = <<0, 0, 0, ".", jobs[1].fn_name, ".png">>
    /\ outNames[2] = <<1, 0, 0, 0, ".", jobs[2].fn_name, ".png">>

====
